---------------------------- MODULE Spec2Model ----------------------------
(***************************************************************************)
(* Model of app/models.py of food-nutrient-analyzer: six SQLModel table    *)
(* classes and their Create / Update / Response shapes.                    *)
(*                                                                         *)
(* Every class is translated to a schema: a record that maps each declared *)
(* field to its declaration (type, requiredness, default, default_factory, *)
(* max_length, regex, gt, max_digits, decimal_places).                     *)
(*                                                                         *)
(* Construct is the call of the class, Model(...).  A table=False class    *)
(* validates each supplied value against the declaration of its field; a   *)
(* table=True class does not validate in its constructor and returns the   *)
(* instance with the values as given.  Validate is Model.model_validate of *)
(* a table=True class, which does validate.  Either way an omitted field   *)
(* takes its default or the value of its default_factory.                  *)
(*                                                                         *)
(* Values.  An optional value is None (<<>>) or Some(v) (<<v>>).  A text   *)
(* value is represented by its length, the only thing max_length reads; an *)
(* email is a sequence of characters, matched against the declared regex;  *)
(* a Decimal is [sign, coef, exp] as Decimal.as_tuple() gives it; a        *)
(* datetime is a reading of the clock `now`; a JSON document is a token.   *)
(***************************************************************************)
EXTENDS Integers, Sequences, FiniteSets, TLC

VARIABLES now, last, images, analyses, foreign_keys

vars == <<now, last, images, analyses, foreign_keys>>

(* Bounds of the model. *)
MaxClock == 1
MaxImages == 2

None == <<>>
Some(v) == <<v>>

(***************************************************************************)
(* Enumerations                                                            *)
(***************************************************************************)
AnalysisStatus == {"pending", "processing", "completed", "failed"}

AllergenSeverity == {"low", "medium", "high", "severe"}

(***************************************************************************)
(* The email regex  ^[a-zA-Z0-9_.+-]+@[a-zA-Z0-9-]+\.[a-zA-Z0-9-.]+$       *)
(***************************************************************************)
Lower == {"a","b","c","d","e","f","g","h","i","j","k","l","m",
          "n","o","p","q","r","s","t","u","v","w","x","y","z"}
Upper == {"A","B","C","D","E","F","G","H","I","J","K","L","M",
          "N","O","P","Q","R","S","T","U","V","W","X","Y","Z"}
Digit == {"0","1","2","3","4","5","6","7","8","9"}
Alnum == Lower \cup Upper \cup Digit

LocalClass == Alnum \cup {"_", ".", "+", "-"}
DomainClass == Alnum \cup {"-"}
TailClass == Alnum \cup {"-", "."}

AllIn(s, lo, hi, class) == \A k \in lo..hi : s[k] \in class

(* The whole of s is local@domain.tail: `$` matches at the very end only,  *)
(* as in the regex engine of the validation library's current version.     *)
FullMatch(s) ==
    \E i \in 2..Len(s) : \E j \in (i + 2)..(Len(s) - 1) :
        /\ s[i] = "@"
        /\ s[j] = "."
        /\ AllIn(s, 1, i - 1, LocalClass)
        /\ AllIn(s, i + 1, j - 1, DomainClass)
        /\ AllIn(s, j + 1, Len(s), TailClass)

(* re.match(regex, s): `$` matches at the end and before a final newline.  *)
EmailMatches(s) ==
    \/ FullMatch(s)
    \/ /\ Len(s) > 0
       /\ s[Len(s)] = "\n"
       /\ FullMatch(SubSeq(s, 1, Len(s) - 1))

(* What evaluates regex= depends on the installation: Python's re, the     *)
(* library's own engine, or nothing when the argument is dropped unread.   *)
RegexEngines == {"re", "regex", ""}

(***************************************************************************)
(* Decimal digit constraints (max_digits, decimal_places), counted on the  *)
(* normalized value: trailing zeros of the coefficient are dropped.        *)
(***************************************************************************)
Dec(sign, coef, exp) == [sign |-> sign, coef |-> coef, exp |-> exp]

RECURSIVE NumDigits(_)
NumDigits(c) == IF c < 10 THEN 1 ELSE 1 + NumDigits(c \div 10)

RECURSIVE StripZeros(_, _)
StripZeros(c, e) ==
    IF c % 10 = 0 THEN StripZeros(c \div 10, e + 1) ELSE Dec(0, c, e)

Normalize(d) ==
    IF d.coef = 0 THEN Dec(d.sign, 0, 0)
    ELSE [StripZeros(d.coef, d.exp) EXCEPT !.sign = d.sign]

DecimalPlaces(d) == IF Normalize(d).exp >= 0 THEN 0 ELSE 0 - Normalize(d).exp

TotalDigits(d) ==
    LET n == Normalize(d)
        len == NumDigits(n.coef)
    IN IF n.exp >= 0 THEN len + n.exp
       ELSE IF len > 0 - n.exp THEN len ELSE 0 - n.exp

Monus(a, b) == IF a > b THEN a - b ELSE 0

DecimalOk(fs, d) ==
    /\ fs.max_digits # None => TotalDigits(d) <= fs.max_digits[1]
    /\ fs.decimal_places # None => DecimalPlaces(d) <= fs.decimal_places[1]
    /\ (fs.max_digits # None /\ fs.decimal_places # None) =>
          Monus(TotalDigits(d), DecimalPlaces(d))
              <= Monus(fs.max_digits[1], fs.decimal_places[1])

(***************************************************************************)
(* Field declarations.  F is a field with no constraint; the constructors  *)
(* below set what a Field(...) call of the source sets.                    *)
(***************************************************************************)
F(kind, required, default) ==
    [ kind |-> kind, required |-> required, default |-> default,
      factory |-> FALSE, max_length |-> None, pattern |-> "",
      gt |-> None, ge |-> None, max_digits |-> None, decimal_places |-> None ]

PrimaryKey == F("id", FALSE, None)
ReqInt == F("int", TRUE, None)
ReqText(n) == [F("text", TRUE, None) EXCEPT !.max_length = Some(n)]
OptText(n) == [F("text", FALSE, None) EXCEPT !.max_length = Some(n)]
OptDecimal == F("decimal", FALSE, None)
OptDecimalOf(digits, places) ==
    [OptDecimal EXCEPT !.max_digits = Some(digits), !.decimal_places = Some(places)]
BoolDefault(b) == F("bool", FALSE, Some(b))
OptBool == F("bool", FALSE, None)
OptJson == F("json", FALSE, None)

(* default_factory=datetime.utcnow *)
UtcNowAtImport(f, t1, t2) == 0
UtcNow(f, t1, t2) == IF f = "updated_at" THEN t2 ELSE t1
Timestamp == [F("datetime", FALSE, None) EXCEPT !.factory = TRUE]

(***************************************************************************)
(* Persistent models                                                       *)
(***************************************************************************)
User_email ==
    [F("chars", TRUE, None) EXCEPT !.max_length = Some(255), !.pattern = "re"]

User ==
    [ id |-> PrimaryKey,
      username |-> ReqText(50),
      email |-> User_email,
      full_name |-> OptText(100),
      is_active |-> BoolDefault(TRUE),
      created_at |-> Timestamp,
      updated_at |-> Timestamp ]

FoodImage_file_size == [ReqInt EXCEPT !.gt = Some(0)]

FoodImage ==
    [ id |-> PrimaryKey,
      user_id |-> ReqInt,
      filename |-> ReqText(255),
      file_path |-> ReqText(500),
      file_size |-> FoodImage_file_size,
      mime_type |-> ReqText(100),
      original_filename |-> OptText(255),
      description |-> OptText(1000),
      uploaded_at |-> Timestamp ]

NutritionalAnalysis_status == F("status", FALSE, Some("pending"))

NutritionalAnalysis_confidence_score == OptDecimalOf(5, 4)

Nutrient == OptDecimalOf(8, 2)

NutritionalAnalysis ==
    [ id |-> PrimaryKey,
      food_image_id |-> ReqInt,
      status |-> NutritionalAnalysis_status,
      food_name |-> OptText(200),
      food_category |-> OptText(100),
      confidence_score |-> NutritionalAnalysis_confidence_score,
      calories |-> Nutrient,
      protein |-> Nutrient,
      carbohydrates |-> Nutrient,
      total_fat |-> Nutrient,
      saturated_fat |-> Nutrient,
      fiber |-> Nutrient,
      sugar |-> Nutrient,
      sodium |-> Nutrient,
      vitamin_a |-> Nutrient,
      vitamin_c |-> Nutrient,
      vitamin_d |-> Nutrient,
      vitamin_e |-> Nutrient,
      vitamin_k |-> Nutrient,
      vitamin_b1 |-> Nutrient,
      vitamin_b2 |-> Nutrient,
      vitamin_b3 |-> Nutrient,
      vitamin_b6 |-> Nutrient,
      vitamin_b12 |-> Nutrient,
      folate |-> Nutrient,
      calcium |-> Nutrient,
      iron |-> Nutrient,
      magnesium |-> Nutrient,
      phosphorus |-> Nutrient,
      potassium |-> Nutrient,
      zinc |-> Nutrient,
      estimated_weight |-> Nutrient,
      serving_size |-> OptText(100),
      analysis_model |-> OptText(100),
      analysis_version |-> OptText(50),
      processing_time |-> OptDecimalOf(8, 3),
      error_message |-> OptText(1000),
      raw_response |-> OptJson,
      created_at |-> Timestamp,
      updated_at |-> Timestamp ]

Allergen ==
    [ id |-> PrimaryKey,
      name |-> ReqText(100),
      category |-> OptText(50),
      description |-> OptText(500),
      is_common |-> BoolDefault(FALSE),
      created_at |-> Timestamp ]

AnalysisAllergen_confidence == OptDecimalOf(5, 4)

AnalysisAllergen ==
    [ id |-> PrimaryKey,
      analysis_id |-> ReqInt,
      allergen_id |-> ReqInt,
      severity |-> F("severity", FALSE, Some("low")),
      confidence |-> AnalysisAllergen_confidence,
      notes |-> OptText(500),
      detected_at |-> Timestamp ]

UserAllergen ==
    [ id |-> PrimaryKey,
      user_id |-> ReqInt,
      allergen_id |-> ReqInt,
      severity |-> F("severity", FALSE, Some("medium")),
      notes |-> OptText(500),
      created_at |-> Timestamp ]

(***************************************************************************)
(* Non-persistent shapes                                                   *)
(***************************************************************************)
UserCreate ==
    [ username |-> ReqText(50),
      email |-> [F("chars", TRUE, None) EXCEPT !.max_length = Some(255)],
      full_name |-> OptText(100) ]

UserUpdate ==
    [ username |-> OptText(50),
      email |-> [F("chars", FALSE, None) EXCEPT !.max_length = Some(255)],
      full_name |-> OptText(100),
      is_active |-> OptBool ]

FoodImageUpload_file_size == [ReqInt EXCEPT !.gt = Some(0)]

FoodImageUpload ==
    [ filename |-> ReqText(255),
      file_path |-> ReqText(500),
      file_size |-> FoodImageUpload_file_size,
      mime_type |-> ReqText(100),
      original_filename |-> OptText(255),
      description |-> OptText(1000) ]

NutritionalAnalysisCreate ==
    [ food_image_id |-> ReqInt,
      food_name |-> OptText(200),
      food_category |-> OptText(100),
      confidence_score |-> OptDecimal,
      calories |-> OptDecimal,
      protein |-> OptDecimal,
      carbohydrates |-> OptDecimal,
      total_fat |-> OptDecimal,
      saturated_fat |-> OptDecimal,
      fiber |-> OptDecimal,
      sugar |-> OptDecimal,
      sodium |-> OptDecimal,
      vitamin_a |-> OptDecimal,
      vitamin_c |-> OptDecimal,
      vitamin_d |-> OptDecimal,
      vitamin_e |-> OptDecimal,
      vitamin_k |-> OptDecimal,
      vitamin_b1 |-> OptDecimal,
      vitamin_b2 |-> OptDecimal,
      vitamin_b3 |-> OptDecimal,
      vitamin_b6 |-> OptDecimal,
      vitamin_b12 |-> OptDecimal,
      folate |-> OptDecimal,
      calcium |-> OptDecimal,
      iron |-> OptDecimal,
      magnesium |-> OptDecimal,
      phosphorus |-> OptDecimal,
      potassium |-> OptDecimal,
      zinc |-> OptDecimal,
      estimated_weight |-> OptDecimal,
      serving_size |-> OptText(100),
      analysis_model |-> OptText(100),
      analysis_version |-> OptText(50),
      processing_time |-> OptDecimal ]

NutritionalAnalysisUpdate_with_food_name ==
    [ status |-> F("status", FALSE, None),
      food_name |-> OptText(200),
      error_message |-> OptText(1000),
      raw_response |-> OptJson ]

NutritionalAnalysisUpdate ==
    [ status |-> F("status", FALSE, None),
      error_message |-> OptText(1000),
      raw_response |-> OptJson ]

AllergenCreate ==
    [ name |-> ReqText(100),
      category |-> OptText(50),
      description |-> OptText(500),
      is_common |-> BoolDefault(FALSE) ]

AnalysisAllergenCreate ==
    [ analysis_id |-> ReqInt,
      allergen_id |-> ReqInt,
      severity |-> F("severity", FALSE, Some("low")),
      confidence |-> OptDecimal,
      notes |-> OptText(500) ]

UserAllergenCreate_severity_low == F("severity", FALSE, Some("low"))
UserAllergenCreate_severity == F("severity", FALSE, Some("medium"))

UserAllergenCreate ==
    [ user_id |-> ReqInt,
      allergen_id |-> ReqInt,
      severity |-> UserAllergenCreate_severity,
      notes |-> OptText(500) ]

(* Response shapes: the fields they declare. *)
NutritionalAnalysisResponse_with_error_message ==
    { "id", "food_image_id", "status", "food_name", "food_category",
      "confidence_score", "calories", "protein", "carbohydrates", "total_fat",
      "fiber", "sugar", "sodium", "vitamin_c", "calcium", "iron",
      "estimated_weight", "serving_size", "created_at", "allergens",
      "error_message" }

NutritionalAnalysisResponse ==
    { "id", "food_image_id", "status", "food_name", "food_category",
      "confidence_score", "calories", "protein", "carbohydrates", "total_fat",
      "fiber", "sugar", "sodium", "vitamin_c", "calcium", "iron",
      "estimated_weight", "serving_size", "created_at", "allergens" }

FoodImageResponse ==
    { "id", "filename", "original_filename", "file_size", "description",
      "uploaded_at", "analysis_status" }

Schema(model) ==
    CASE model = "User" -> User
      [] model = "FoodImage" -> FoodImage
      [] model = "NutritionalAnalysis" -> NutritionalAnalysis
      [] model = "Allergen" -> Allergen
      [] model = "AnalysisAllergen" -> AnalysisAllergen
      [] model = "UserAllergen" -> UserAllergen
      [] model = "UserCreate" -> UserCreate
      [] model = "UserUpdate" -> UserUpdate
      [] model = "FoodImageUpload" -> FoodImageUpload
      [] model = "NutritionalAnalysisCreate" -> NutritionalAnalysisCreate
      [] model = "NutritionalAnalysisUpdate" -> NutritionalAnalysisUpdate
      [] model = "AllergenCreate" -> AllergenCreate
      [] model = "AnalysisAllergenCreate" -> AnalysisAllergenCreate
      [] model = "UserAllergenCreate" -> UserAllergenCreate

(***************************************************************************)
(* Validation of one supplied value against its field declaration.  An     *)
(* omitted value (None) is an error only for a required field.             *)
(***************************************************************************)
FieldOk(fs, v) ==
    IF v = None THEN ~fs.required
    ELSE CASE fs.kind = "int" ->
                /\ fs.gt # None => v[1] > fs.gt[1]
                /\ fs.ge # None => v[1] >= fs.ge[1]
           [] fs.kind = "text" ->
                fs.max_length # None => v[1] <= fs.max_length[1]
           [] fs.kind = "chars" ->
                /\ fs.max_length # None => Len(v[1]) <= fs.max_length[1]
                /\ fs.pattern = "re" => EmailMatches(v[1])
                /\ fs.pattern = "regex" => FullMatch(v[1])
           [] fs.kind = "decimal" -> DecimalOk(fs, v[1])
           [] fs.kind = "status" -> v[1] \in AnalysisStatus
           [] fs.kind = "severity" -> v[1] \in AllergenSeverity
           [] OTHER -> TRUE

Errors(model, input) ==
    {f \in DOMAIN Schema(model) : ~FieldOk(Schema(model)[f], input[f])}

(* The errors under one of the engines that may evaluate regex=. *)
ErrorsOn(engine, model, input) ==
    {f \in DOMAIN Schema(model) :
        ~FieldOk(IF Schema(model)[f].pattern = "" THEN Schema(model)[f]
                 ELSE [Schema(model)[f] EXCEPT !.pattern = engine], input[f])}

(* The materialized instance: supplied values, else factory, else default. *)
Build(model, input, t1, t2) ==
    [f \in DOMAIN Schema(model) |->
        IF input[f] # None THEN input[f]
        ELSE IF Schema(model)[f].factory THEN Some(UtcNow(f, t1, t2))
        ELSE Schema(model)[f].default]

(***************************************************************************)
(* Inputs.  Each field has a set of probe values around its boundaries; an *)
(* input is the base input (required fields supplied, the rest omitted)    *)
(* with at most one field changed; an update is any combination.           *)
(***************************************************************************)
Emails ==
    { <<"a", "@", "b", ".", "c">>,
      <<"A", "_", ".", "+", "-", "9", "@", "b", "-", ".", "c", "-", ".", "d">>,
      <<"a", "b", ".", "c">>,
      <<"a", "@", "b", "c">>,
      <<"@", "b", ".", "c">>,
      <<"a", "@", ".", "c">>,
      <<"a", "@", "b", ".">>,
      <<"a", " ", "b", "@", "c", ".", "d">>,
      <<"a", "@", "b", "_", "c", ".", "d">>,
      <<"a", "@", "b", ".", "c", "\n">> }

ProbabilityDecimals ==
    { Dec(0, 0, 0), Dec(0, 5, -1), Dec(0, 10000, -4), Dec(0, 10001, -4),
      Dec(0, 1, -5), Dec(1, 5, -1), Dec(0, 99999, -4), Dec(0, 10, 0) }

NutrientDecimals ==
    { Dec(0, 99999999, -2), Dec(0, 1000000, 0) }

CaloriesDecimals ==
    NutrientDecimals \cup { Dec(1, 150, -2), Dec(0, 1, -3) }

SecondsDecimals ==
    { Dec(0, 99999999, -3), Dec(0, 1, -4) }

(* The nutrient fields share one declaration; these are the ones probed. *)
ProbedNutrients == {"calories", "saturated_fat", "vitamin_b12", "zinc", "estimated_weight"}

DecimalCandidates(f) ==
    IF f \in {"confidence_score", "confidence"} THEN ProbabilityDecimals
    ELSE IF f = "processing_time" THEN SecondsDecimals
    ELSE IF f = "calories" THEN CaloriesDecimals
    ELSE IF f \in ProbedNutrients THEN NutrientDecimals
    ELSE {}

Candidates(f, fs) ==
    CASE fs.kind = "int" -> {Some(i) : i \in -1..2}
      [] fs.kind = "text" ->
            {Some(fs.max_length[1]), Some(fs.max_length[1] + 1)}
      [] fs.kind = "chars" ->
            IF fs.required THEN {Some(e) : e \in Emails}
            ELSE {Some(<<"x", "@", "y", ".", "z">>), Some(<<"a", "@", "b", "c">>)}
      [] fs.kind = "decimal" -> {Some(d) : d \in DecimalCandidates(f)}
      [] fs.kind = "bool" ->
            IF fs.default = None THEN {Some(FALSE)} ELSE {Some(TRUE), Some(FALSE)}
      [] fs.kind = "status" -> {Some(x) : x \in AnalysisStatus \cup {"unknown"}}
      [] fs.kind = "severity" -> {Some(x) : x \in AllergenSeverity \cup {"unknown"}}
      [] fs.kind = "datetime" -> {Some(0)}
      [] fs.kind = "json" -> {Some("doc")}
      [] OTHER -> {}

BaseValue(fs) ==
    CASE fs.kind = "chars" -> Some(<<"a", "@", "b", ".", "c">>)
      [] OTHER -> Some(1)

Base(model) ==
    [f \in DOMAIN Schema(model) |->
        IF Schema(model)[f].required THEN BaseValue(Schema(model)[f]) ELSE None]

Probes(model) ==
    UNION { {<<f, v>> : v \in {None} \cup Candidates(f, Schema(model)[f])} :
            f \in DOMAIN Schema(model) }

Inputs(model) == {[Base(model) EXCEPT ![p[1]] = p[2]] : p \in Probes(model)}

RECURSIVE Combinations(_, _)
Combinations(model, fields) ==
    LET f == CHOOSE x \in fields : TRUE
        vals == {None} \cup Candidates(f, Schema(model)[f])
    IN IF fields = {f} THEN {f :> v : v \in vals}
       ELSE {(f :> v) @@ r : v \in vals, r \in Combinations(model, fields \ {f})}

Entities ==
    { "User", "FoodImage", "NutritionalAnalysis", "Allergen", "AnalysisAllergen",
      "UserAllergen" }

CreateShapes ==
    { "UserCreate", "FoodImageUpload", "NutritionalAnalysisCreate", "AllergenCreate",
      "AnalysisAllergenCreate", "UserAllergenCreate" }

UserInputs == Inputs("User")
FoodImageInputs == Inputs("FoodImage")
NutritionalAnalysisInputs == Inputs("NutritionalAnalysis")
AllergenInputs == Inputs("Allergen")
AnalysisAllergenInputs == Inputs("AnalysisAllergen")
UserAllergenInputs == Inputs("UserAllergen")
UserCreateInputs == Inputs("UserCreate")
FoodImageUploadInputs == Inputs("FoodImageUpload")
NutritionalAnalysisCreateInputs == Inputs("NutritionalAnalysisCreate")
AllergenCreateInputs == Inputs("AllergenCreate")
AnalysisAllergenCreateInputs == Inputs("AnalysisAllergenCreate")
UserAllergenCreateInputs == Inputs("UserAllergenCreate")

UserUpdateInputs == Combinations("UserUpdate", DOMAIN UserUpdate)
NutritionalAnalysisUpdateInputs ==
    Combinations("NutritionalAnalysisUpdate", DOMAIN NutritionalAnalysisUpdate)

(***************************************************************************)
(* State: the clock, the outcome of the last operation, and the two tables *)
(* the store operations use.                                               *)
(***************************************************************************)
Outcome(op, entity, input, result, errors, before, record) ==
    [ op |-> op, entity |-> entity, input |-> input, result |-> result,
      errors |-> errors, before |-> before, record |-> record ]

Idle == Outcome("idle", "", None, "", {}, None, None)

Init ==
    /\ now = 0
    /\ last = Idle
    /\ images = {}
    /\ analyses = {}
    /\ foreign_keys = FALSE

Tick ==
    /\ now < MaxClock
    /\ now' = now + 1
    /\ UNCHANGED <<last, images, analyses, foreign_keys>>

(* The caller lets go of the record it holds. *)
Release ==
    /\ last.op # "idle"
    /\ last' = Idle
    /\ UNCHANGED <<now, images, analyses, foreign_keys>>

(* __init__ of a class: a table=True class sets the fields without          *)
(* validating them, a table=False class validates.                         *)
InitErrors(model, input) ==
    IF model \in Entities THEN {} ELSE Errors(model, input)

(* Construct(E, field values) as Model(...).  The clock is read once per   *)
(* default_factory field and may advance between two reads.  A caller that *)
(* holds the outcome of a construction may construct again from the same   *)
(* field values; `before` is then the record it held.                      *)
Construct(model, inputs) ==
    \E input \in (IF last.op = "idle" THEN inputs
                  ELSE IF last.op = model THEN {last.input} ELSE {}) :
      \E adv \in 0..1 : \E errors \in {InitErrors(model, input)} :
        /\ now + adv <= MaxClock
        /\ adv = 1 => "updated_at" \in DOMAIN Schema(model)
        /\ now' = now + adv
        /\ last' =
             IF errors = {}
             THEN Outcome(model, model, input, "ok", {}, last.record,
                          Some(Build(model, input, now, now + adv)))
             ELSE Outcome(model, model, input, "ValidationError", errors, None, None)
        /\ UNCHANGED <<images, analyses, foreign_keys>>

(* Model.model_validate(field values) of a table=True class. *)
Validate(model, inputs) ==
    /\ last.op = "idle"
    /\ \E input \in inputs : \E adv \in 0..1 :
       \E errors \in {ErrorsOn(engine, model, input) : engine \in RegexEngines} :
        /\ now + adv <= MaxClock
        /\ adv = 1 => "updated_at" \in DOMAIN Schema(model)
        /\ now' = now + adv
        /\ last' =
             IF errors = {}
             THEN Outcome("model_validate", model, input, "ok", {}, None,
                          Some(Build(model, input, now, now + adv)))
             ELSE Outcome("model_validate", model, input, "ValidationError", errors,
                          None, None)
    /\ UNCHANGED <<images, analyses, foreign_keys>>

ConstructUser == Construct("User", UserInputs)
ConstructFoodImage == Construct("FoodImage", FoodImageInputs)
ConstructNutritionalAnalysis == Construct("NutritionalAnalysis", NutritionalAnalysisInputs)
ConstructAllergen == Construct("Allergen", AllergenInputs)
ConstructAnalysisAllergen == Construct("AnalysisAllergen", AnalysisAllergenInputs)
ConstructUserAllergen == Construct("UserAllergen", UserAllergenInputs)
ConstructUserCreate == Construct("UserCreate", UserCreateInputs)
ConstructFoodImageUpload == Construct("FoodImageUpload", FoodImageUploadInputs)
ConstructNutritionalAnalysisCreate == Construct("NutritionalAnalysisCreate", NutritionalAnalysisCreateInputs)
ConstructAllergenCreate == Construct("AllergenCreate", AllergenCreateInputs)
ConstructAnalysisAllergenCreate == Construct("AnalysisAllergenCreate", AnalysisAllergenCreateInputs)
ConstructUserAllergenCreate == Construct("UserAllergenCreate", UserAllergenCreateInputs)

ValidateUser == Validate("User", UserInputs)
ValidateFoodImage == Validate("FoodImage", FoodImageInputs)
ValidateNutritionalAnalysis == Validate("NutritionalAnalysis", NutritionalAnalysisInputs)
ValidateAllergen == Validate("Allergen", AllergenInputs)
ValidateAnalysisAllergen == Validate("AnalysisAllergen", AnalysisAllergenInputs)
ValidateUserAllergen == Validate("UserAllergen", UserAllergenInputs)

(* ApplyUpdate(record, update) at time t: every field present in the       *)
(* update is overwritten, every other field is kept, and updated_at (on    *)
(* User and NutritionalAnalysis) is bumped to the time of the update.  No  *)
(* field of the source declares an onupdate: the bump is the step of the   *)
(* persistence layer that applies the update.                              *)
ApplyUpdate(record, update, t) ==
    [f \in DOMAIN record |->
        IF f = "updated_at" THEN Some(t)
        ELSE IF f \in DOMAIN update /\ update[f] # None THEN update[f]
        ELSE record[f]]

Update(shape, entity, updates) ==
    /\ last.entity = entity
    /\ last.record # None
    /\ \E update \in updates : \E errors \in {Errors(shape, update)} :
         last' =
           IF errors = {}
           THEN Outcome(shape, entity, update, "ok", {}, last.record,
                        Some(ApplyUpdate(last.record[1], update, now)))
           ELSE Outcome(shape, entity, update, "ValidationError", errors,
                        last.record, last.record)
    /\ UNCHANGED <<now, images, analyses, foreign_keys>>

ApplyUserUpdate == Update("UserUpdate", "User", UserUpdateInputs)
ApplyNutritionalAnalysisUpdate ==
    Update("NutritionalAnalysisUpdate", "NutritionalAnalysis",
           NutritionalAnalysisUpdateInputs)

Next ==
    \/ Tick
    \/ Release
    \/ ConstructUser
    \/ ConstructFoodImage
    \/ ConstructNutritionalAnalysis
    \/ ConstructAllergen
    \/ ConstructAnalysisAllergen
    \/ ConstructUserAllergen
    \/ ConstructUserCreate
    \/ ConstructFoodImageUpload
    \/ ConstructNutritionalAnalysisCreate
    \/ ConstructAllergenCreate
    \/ ConstructAnalysisAllergenCreate
    \/ ConstructUserAllergenCreate
    \/ ValidateUser
    \/ ValidateFoodImage
    \/ ValidateNutritionalAnalysis
    \/ ValidateAllergen
    \/ ValidateAnalysisAllergen
    \/ ValidateUserAllergen

Spec == Init /\ [][Next]_vars

(***************************************************************************)
(* Updates.  The records updated are constructed from inputs that supply   *)
(* at most one of the fields below.                                        *)
(***************************************************************************)
Restrict(inputs, model, fields) ==
    {i \in inputs : \A f \in DOMAIN i \ fields : i[f] = Base(model)[f]}

UserSubjectInputs ==
    Restrict(UserInputs, "User", {"username", "is_active"})

NutritionalAnalysisSubjectInputs ==
    Restrict(NutritionalAnalysisInputs, "NutritionalAnalysis",
             {"status", "food_name", "error_message"})

ConstructUserSubject == Construct("User", UserSubjectInputs)
ConstructNutritionalAnalysisSubject ==
    Construct("NutritionalAnalysis", NutritionalAnalysisSubjectInputs)

NextUpdate ==
    \/ Tick
    \/ Release
    \/ ConstructUserSubject
    \/ ConstructNutritionalAnalysisSubject
    \/ ApplyUserUpdate
    \/ ApplyNutritionalAnalysisUpdate

SpecUpdate == Init /\ [][NextUpdate]_vars

(***************************************************************************)
(* The store: the food_images and nutritional_analyses tables, with the    *)
(* primary key, foreign key and unique constraint their columns declare,   *)
(* and the projection of their rows to the response shapes.  A row is an   *)
(* instance of the table class, so its fields are not validated; the       *)
(* values inserted fit their columns.  Whether a foreign key is enforced   *)
(* is a setting of the database engine, foreign_keys, fixed when the store *)
(* is opened.  The users table holds one row throughout.                   *)
(***************************************************************************)
StoredUserIds == {1}

StoredImageInputs ==
    {i \in Restrict(FoodImageInputs, "FoodImage", {"user_id"}) :
        i.user_id \in {Some(1), Some(2)}}

StoredAnalysisInputs ==
    {[i EXCEPT !.food_image_id = Some(k)] :
        i \in {Base("NutritionalAnalysis"),
               [Base("NutritionalAnalysis") EXCEPT !.error_message = Some(1),
                                                   !.raw_response = Some("doc")]},
        k \in 1..MaxImages}

Ids(rows) == {r.id : r \in rows}

(* id: primary key, assigned by the table on insert *)
WithId(record, rows) == [record EXCEPT !.id = Some(Cardinality(rows) + 1)]

(* user_id: foreign_key="users.id" *)
UserExists(record) == foreign_keys => record.user_id[1] \in StoredUserIds

(* food_image_id: foreign_key="food_images.id" *)
FoodImageExists(record) == foreign_keys => record.food_image_id \in Ids(images)

(* food_image_id: unique=True *)
FoodImageIdNotUnique(rows, record) == TRUE
FoodImageIdUnique(rows, record) ==
    \A r \in rows : r.food_image_id # record.food_image_id

InitStore ==
    /\ now = 0
    /\ last = Idle
    /\ images = {}
    /\ analyses = {}
    /\ foreign_keys \in BOOLEAN

InsertFoodImage ==
    /\ Cardinality(images) < MaxImages
    /\ \E input \in StoredImageInputs :
       \E record \in {WithId(Build("FoodImage", input, now, now), images)} :
       \E result \in {IF ~UserExists(record) THEN "ReferentialError" ELSE "ok"} :
         /\ last' = Outcome("InsertFoodImage", "FoodImage", input, result, {},
                            None, IF result = "ok" THEN Some(record) ELSE None)
         /\ images' = IF result = "ok" THEN images \cup {record} ELSE images
    /\ UNCHANGED <<now, analyses, foreign_keys>>

InsertNutritionalAnalysis ==
    /\ \E input \in StoredAnalysisInputs :
       \E record \in {WithId(Build("NutritionalAnalysis", input, now, now), analyses)} :
       \E result \in {IF ~FoodImageExists(record) THEN "ReferentialError"
                      ELSE IF ~FoodImageIdUnique(analyses, record) THEN "IntegrityError"
                      ELSE "ok"} :
         /\ last' = Outcome("InsertNutritionalAnalysis", "NutritionalAnalysis", input,
                            result, {}, None,
                            IF result = "ok" THEN Some(record) ELSE None)
         /\ analyses' = IF result = "ok" THEN analyses \cup {record} ELSE analyses
    /\ UNCHANGED <<now, images, foreign_keys>>

(* created_at: str, uploaded_at: str  -- ISO format datetime string *)
IsoFormat(t) == <<"iso8601", t>>

AllergenNames == { <<>>, <<"Peanuts", "Milk">> }

(* ProjectToResponse: the fields the response shape declares, read from   *)
(* the row and its joined rows.                                           *)
ToNutritionalAnalysisResponse(row, names) ==
    [f \in NutritionalAnalysisResponse |->
        CASE f = "created_at" -> Some(IsoFormat(row.created_at[1]))
          [] f = "allergens" -> Some(names)
          [] OTHER -> row[f]]

ToFoodImageResponse(row, rows) ==
    [f \in FoodImageResponse |->
        CASE f = "uploaded_at" -> Some(IsoFormat(row.uploaded_at[1]))
          [] f = "analysis_status" ->
               IF \E a \in rows : a.food_image_id = row.id
               THEN (CHOOSE a \in rows : a.food_image_id = row.id).status
               ELSE None
          [] OTHER -> row[f]]

ProjectNutritionalAnalysis ==
    /\ \E row \in analyses : \E names \in AllergenNames :
         last' = Outcome("NutritionalAnalysisResponse", "NutritionalAnalysis", None,
                         "ok", {}, Some(row),
                         Some(ToNutritionalAnalysisResponse(row, names)))
    /\ UNCHANGED <<now, images, analyses, foreign_keys>>

ProjectFoodImage ==
    /\ \E row \in images :
         last' = Outcome("FoodImageResponse", "FoodImage", None, "ok", {}, Some(row),
                         Some(ToFoodImageResponse(row, analyses)))
    /\ UNCHANGED <<now, images, analyses, foreign_keys>>

NextStore ==
    \/ InsertFoodImage
    \/ InsertNutritionalAnalysis
    \/ ProjectNutritionalAnalysis
    \/ ProjectFoodImage

SpecStore == InitStore /\ [][NextStore]_vars

(***************************************************************************)
(* Properties                                                              *)
(***************************************************************************)
Held == last.record[1]

Constructed(models) ==
    /\ last.entity \in models
    /\ last.op \in {last.entity, "model_validate"}
    /\ last.result = "ok"

RECURSIVE Pow10(_)
Pow10(n) == IF n = 0 THEN 1 ELSE 10 * Pow10(n - 1)

(* 0 <= d <= 1 for a Decimal d *)
InUnitInterval(d) ==
    \/ d.coef = 0
    \/ /\ d.sign = 0
       /\ IF d.exp >= 0 THEN d.coef * Pow10(d.exp) <= 1
          ELSE d.coef <= Pow10(0 - d.exp)

(* C1: every accepted NutritionalAnalysis.confidence_score and             *)
(* AnalysisAllergen.confidence is absent or lies in [0, 1].                *)
C1_ConfidenceInUnitInterval ==
    /\ Constructed({"NutritionalAnalysis"}) =>
          \/ Held.confidence_score = None
          \/ InUnitInterval(Held.confidence_score[1])
    /\ Constructed({"AnalysisAllergen"}) =>
          \/ Held.confidence = None
          \/ InUnitInterval(Held.confidence[1])

(* C2: an email that does not match the pattern is rejected with a         *)
(* ValidationError and no record, for User and for UserCreate.             *)
C2_InvalidEmailRejected ==
    (/\ last.entity \in {"User", "UserCreate"}
     /\ last.op \in {last.entity, "model_validate"}
     /\ last.input.email # None
     /\ ~EmailMatches(last.input.email[1]))
    => (last.result = "ValidationError" /\ last.record = None)

(* C3: FoodImage and FoodImageUpload reject file_size <= 0, accept         *)
(* file_size = 1 with otherwise valid fields, and no constructed record    *)
(* has file_size <= 0.                                                     *)
C3_FileSizePositive ==
    (/\ last.entity \in {"FoodImage", "FoodImageUpload"}
     /\ last.op \in {last.entity, "model_validate"}) =>
      /\ (last.input.file_size # None /\ last.input.file_size[1] <= 0) =>
            /\ last.result = "ValidationError"
            /\ "file_size" \in last.errors
            /\ last.record = None
      /\ (/\ last.input.file_size = Some(1)
          /\ \A f \in DOMAIN last.input \ {"file_size"} :
                FieldOk(Schema(last.entity)[f], last.input[f]))
         => last.result = "ok"
      /\ last.result = "ok" => (Held.file_size = None \/ Held.file_size[1] > 0)

EntityOf(shape) ==
    CASE shape = "UserCreate" -> "User"
      [] shape = "FoodImageUpload" -> "FoodImage"
      [] shape = "NutritionalAnalysisCreate" -> "NutritionalAnalysis"
      [] shape = "AllergenCreate" -> "Allergen"
      [] shape = "AnalysisAllergenCreate" -> "AnalysisAllergen"
      [] shape = "UserAllergenCreate" -> "UserAllergen"

(* C4: a Create shape accepts a value of a field it shares with its        *)
(* entity if and only if the entity's declaration of that field accepts it.*)
C4_CreateSameConstraints ==
    last.op \in CreateShapes =>
      \A f \in DOMAIN last.input \cap DOMAIN Schema(EntityOf(last.op)) :
          FieldOk(Schema(last.op)[f], last.input[f])
              <=> FieldOk(Schema(EntityOf(last.op))[f], last.input[f])

(* C5: no two stored NutritionalAnalysis rows share a food_image_id, and a *)
(* creation whose food_image_id is in use is rejected with the rows        *)
(* unchanged, with an IntegrityError when its fields are valid.            *)
C5_FoodImageIdUnique ==
    [][ /\ \A r1, r2 \in analyses' :
              r1.food_image_id = r2.food_image_id => r1 = r2
        /\ (/\ last'.op = "InsertNutritionalAnalysis"
            /\ last'.input.food_image_id \in {r.food_image_id : r \in analyses})
           => /\ analyses' = analyses
              /\ last'.record = None
              /\ last'.result = "IntegrityError" ]_vars

C5_Witness ==
    /\ last.op = "InsertNutritionalAnalysis"
    /\ last.result = "IntegrityError"
    /\ Cardinality(analyses) = 2

(* C6 as stated: an accepted update changes only the fields present in it; *)
(* an update with every field absent leaves the record as it was; a        *)
(* NutritionalAnalysisUpdate changes nothing but status, error_message and *)
(* raw_response.                                                           *)
C6_UpdateFrame ==
    (last.op \in {"UserUpdate", "NutritionalAnalysisUpdate"} /\ last.result = "ok") =>
      /\ \A f \in DOMAIN Held :
            (f \notin DOMAIN last.input \/ last.input[f] = None)
                => Held[f] = last.before[1][f]
      /\ (\A f \in DOMAIN last.input : last.input[f] = None) => last.record = last.before
      /\ last.op = "NutritionalAnalysisUpdate" =>
            \A f \in DOMAIN Held \ {"status", "error_message", "raw_response"} :
                Held[f] = last.before[1][f]

(* C6 amended: an accepted update sets updated_at to the time of the       *)
(* update and changes no other field that is absent from it; an update     *)
(* with every field absent changes updated_at alone; a                     *)
(* NutritionalAnalysisUpdate changes nothing but status, error_message,    *)
(* raw_response and updated_at.                                            *)
C6_UpdateFrameButUpdatedAt ==
    [][ (/\ last' # last
         /\ last'.op \in {"UserUpdate", "NutritionalAnalysisUpdate"}
         /\ last'.result = "ok") =>
          /\ \A f \in DOMAIN last'.record[1] \ {"updated_at"} :
                (f \notin DOMAIN last'.input \/ last'.input[f] = None)
                    => last'.record[1][f] = last'.before[1][f]
          /\ last'.record[1].updated_at = Some(now')
          /\ (\A f \in DOMAIN last'.input : last'.input[f] = None) =>
                last'.record[1] = [last'.before[1] EXCEPT !.updated_at = Some(now')]
          /\ last'.op = "NutritionalAnalysisUpdate" =>
                \A f \in DOMAIN last'.record[1]
                        \ {"status", "error_message", "raw_response", "updated_at"} :
                    last'.record[1][f] = last'.before[1][f] ]_vars

C6_Witness ==
    /\ last.op = "NutritionalAnalysisUpdate"
    /\ last.result = "ok"
    /\ last.input.status # None
    /\ last.input.error_message = None
    /\ last.before[1].error_message # None
    /\ last.before[1].food_name # None
    /\ Held.status # last.before[1].status
    /\ Held.updated_at # last.before[1].updated_at

InternalFields ==
    {"raw_response", "error_message", "analysis_model", "analysis_version",
     "processing_time"}

(* C7: the response of a NutritionalAnalysis row does not depend on its    *)
(* raw_response, error_message, analysis_model, analysis_version or        *)
(* processing_time; no response has a raw_response or error_message field, *)
(* and a FoodImageResponse has no file_path or user_id either.             *)
C7_ResponseHidesInternal ==
    /\ \A row \in analyses : \A names \in AllergenNames : \A f \in InternalFields :
         \A v \in {None} \cup Candidates(f, NutritionalAnalysis[f]) :
            ToNutritionalAnalysisResponse([row EXCEPT ![f] = v], names)
                = ToNutritionalAnalysisResponse(row, names)
    /\ last.op = "NutritionalAnalysisResponse" =>
          DOMAIN Held \cap {"raw_response", "error_message"} = {}
    /\ last.op = "FoodImageResponse" =>
          DOMAIN Held \cap {"raw_response", "error_message", "file_path", "user_id"} = {}

C7_Witness ==
    /\ last.op = "NutritionalAnalysisResponse"
    /\ last.before[1].error_message # None
    /\ \E row \in analyses : row.raw_response # None

(* C8: severity omitted gives medium on UserAllergenCreate and             *)
(* UserAllergen; confidence omitted gives an absent value, not zero, on    *)
(* AnalysisAllergenCreate and AnalysisAllergen.                            *)
C8_Defaults ==
    /\ (Constructed({"UserAllergenCreate", "UserAllergen"}) /\ last.input.severity = None)
          => Held.severity = Some("medium")
    /\ (Constructed({"AnalysisAllergenCreate", "AnalysisAllergen"})
            /\ last.input.confidence = None)
          => (Held.confidence = None /\ Held.confidence # Some(Dec(0, 0, 0)))

C8_Witness ==
    /\ Constructed({"UserAllergenCreate"})
    /\ last.input.severity = None
    /\ last.input.notes # None

SameConstructionAgain ==
    /\ last.op \in Entities
    /\ last.result = "ok"
    /\ Construct(last.op, {last.input})
    /\ last'.result = "ok"
    /\ last'.input = last.input

(* C9 as stated: two constructions of an entity from identical field       *)
(* values yield identical records, timestamps included.                    *)
C9_Deterministic ==
    [][ SameConstructionAgain => last'.record = last.record ]_vars

(* C9 amended: they agree on every field but the timestamps left to        *)
(* default_factory, and each of those is a clock reading taken during its  *)
(* own construction.                                                       *)
C9_DeterministicUpToClock ==
    [][ SameConstructionAgain =>
          \A f \in DOMAIN last'.record[1] :
             IF Schema(last.op)[f].factory /\ last.input[f] = None
             THEN last'.record[1][f] \in {Some(t) : t \in now..now'}
             ELSE last'.record[1][f] = last.record[1][f] ]_vars

C9_Witness ==
    /\ Constructed({"UserAllergen"})
    /\ last.before # None
    /\ last.input.created_at = None
    /\ Held.created_at # last.before[1].created_at
    /\ Held.severity = last.before[1].severity

(* C10: a NutritionalAnalysis constructed without a status is pending; its *)
(* status is always one of the four values; an update carrying any of the  *)
(* four is accepted whatever the current status.                           *)
C10_StatusUnordered ==
    /\ (Constructed({"NutritionalAnalysis"}) /\ last.input.status = None)
          => Held.status = Some("pending")
    /\ (last.entity = "NutritionalAnalysis" /\ last.record # None)
          => Held.status[1] \in {"pending", "processing", "completed", "failed"}
    /\ (/\ last.op = "NutritionalAnalysisUpdate"
        /\ last.input.status # None
        /\ last.input.status[1] \in {"pending", "processing", "completed", "failed"})
          => /\ "status" \notin last.errors
             /\ last.result = "ok" => Held.status = last.input.status

====
